---- MODULE Spec2Model ----
(***************************************************************************)
(* The SSH connection pool and command executor of the NOFX operations     *)
(* panel (nofx-ops-panel/backend/app/services/ssh_executor.py).            *)
(*                                                                         *)
(* Spec      : the calls are made one after another; every action is one   *)
(*             whole call on the pool or on the executor.                  *)
(* SpecConc  : execute runs on worker threads (execute_async); every       *)
(*             action is one step of one thread, the threads interleave    *)
(*             wherever the interpreter can switch between them.           *)
(* SpecApp   : the request handlers of the panel (main.py, api/*.py) call  *)
(*             the executor; requests are served one after another.        *)
(* SpecAsync : of these, the handlers that await execute_async alone.      *)
(* SpecHistory : the image history file (api/image_history.py).            *)
(* SpecLimiter : the rate limiter (middleware/__init__.py).                *)
(***************************************************************************)
EXTENDS Integers, Sequences, FiniteSets, TLC

\* ---------------------------------------------------------------- bounds
MaxSessions == 3      \* sessions (SSHClient objects) ever created in a run
MaxCapacity == 2      \* max_connections is drawn from 1..MaxCapacity
NumThreads  == 2      \* worker threads of the default executor that run execute
MaxHistory  == 3      \* the cap on the stored history (100 in the source)
MaxAdds     == 6      \* calls of add_history_record in a run
MaxRate     == 2      \* requests_per_minute (60 in the source)
Window      == 3      \* the length of the limiter's window (60 s in the source)
MaxClock    == 5      \* the last tick of the clock in a run

Sessions == 1..MaxSessions
Threads  == 1..NumThreads
None     == 0         \* Python's None, where a client is expected

\* What client.get_transport() / transport.is_active() gives for a session:
\*   "active"   the transport is there and active
\*   "inactive" the transport is there, is_active() is False
\*   "missing"  get_transport() returns None
\*   "broken"   the probe raises
\*   "uncreated" the SSHClient does not exist yet
Dead == {"inactive", "missing", "broken"}

\* What a remote command prints on stdout and on stderr: nothing, or bytes of
\* which "a" is valid UTF-8 and "xFF" is not.
Printed == {[out |-> <<>>, err |-> <<>>],
            [out |-> <<"xFF", "a">>, err |-> <<"a", "xFF">>]}
ExitStatuses == {0, 1}

VARIABLES
    max_connections,  \* SSHConnectionPool.max_connections
    pool,             \* SSHConnectionPool.pool: a list of sessions
    in_use,           \* SSHConnectionPool.in_use: a set of sessions
    transport,        \* per session, the state of its transport
    nextId,           \* the next SSHClient object to be constructed
    last,             \* the last call made and what it returned
    pc,               \* per thread, where it stands in execute
    idx,              \* per thread, the index of its iterator over self.pool
    clientOf,         \* per thread, its local variable client
    remote,           \* per thread, the state of the command it issued
    expired,          \* per thread, the timeout passed with the command running
    result,           \* per thread, what its body gave and what execute returned
    SSH_POOL_MAX_CONNECTIONS,  \* config.SSH_POOL_MAX_CONNECTIONS
    request,          \* the request being served, or the last one served
    own,              \* open sessions of executors other than ssh_executor
    HISTORY_FILE,     \* the file /tmp/nofx_image_history.json
    added,            \* how many times add_history_record was called
    clearedAt,        \* the value of added when clear_history was last called
    faulty,           \* some write of the history file did not complete
    requests,         \* RateLimitMiddleware.requests: per IP, a list of times
    clock,            \* time.time()
    admitted,         \* per IP, the times of the requests passed to call_next
    response          \* what the last dispatch did: "none", "next" or "429"

poolVars   == <<max_connections, pool, in_use, transport, nextId>>
threadVars == <<pc, idx, clientOf, remote, expired, result>>
histVars   == <<HISTORY_FILE, added, clearedAt, faulty>>
limitVars  == <<requests, clock, admitted, response>>
sideVars   == <<histVars, limitVars>>
appVars    == <<SSH_POOL_MAX_CONNECTIONS, request, own, sideVars>>
vars       == <<max_connections, pool, in_use, transport, nextId, last,
                pc, idx, clientOf, remote, expired, result,
                SSH_POOL_MAX_CONNECTIONS, request, own,
                HISTORY_FILE, added, clearedAt, faulty,
                requests, clock, admitted, response>>

\* ---------------------------------------------------------------- helpers
Range(s) == {s[i] : i \in 1..Len(s)}

\* list.remove(x): drops the first occurrence of x (x is known to be there)
ListRemove(s, x) ==
    LET k == CHOOSE i \in 1..Len(s) : s[i] = x /\ \A j \in 1..(i-1) : s[j] # x
    IN  [i \in 1..(Len(s)-1) |-> IF i < k THEN s[i] ELSE s[i+1]]

\* bytes.decode('utf-8', errors='replace'): a replacement character stands
\* for every undecodable byte
decode_replace(b) == [i \in 1..Len(b) |-> IF b[i] = "xFF" THEN "uFFFD" ELSE b[i]]

\* bytes.decode('utf-8', errors='ignore'): undecodable bytes are left out
decode(b) == SelectSeq(b, LAMBDA x : x # "xFF")

\* str(e) of an exception: its message, a text no command output is equal to
str(e) == <<e>>

\* The record of a call: the operation, the client it returned or worked on,
\* the session it created, the sessions it probed (for close_all: the
\* sessions it called close() on), the exception raised
\* what the remote side did with the command it issued (command, see
\* Outcomes), the exception raised inside it (error), whether that exception
\* left the call (raised), and the tuple it returned.
NoCommand == [kind |-> "none", out |-> <<>>, err |-> <<>>, status |-> 0]

NoCall == [op |-> "none", client |-> None, created |-> None, probed |-> {},
           command |-> NoCommand, error |-> "",
           raised |-> FALSE, stdout |-> <<>>, stderr |-> <<>>, exit_code |-> 0]

\* What a thread has of its call: the exception on its way to line 106
\* (error), the exception that was being handled when that one was raised
\* (context, Python's __context__), and the tuple.
NoResult == [error |-> "", context |-> "", stdout |-> <<>>, stderr |-> <<>>,
             exit_code |-> 0]

\* ------------------------------------------------------------ get_connection
\* The liveness probe of lines 25-26: a transport that is there and active.
probe_transport_only(c) ==
    IF transport[c] = "inactive" THEN "active" ELSE transport[c]

probe(c) == transport[c]

\* The loop of lines 21-32 from index i on: the pool it leaves, the client it
\* returns (None when the loop runs to its end) and the clients it probed.
\* The iterator of `for client in self.pool` keeps an index into the list: it
\* moves on by one after every pass, also after a pass that removed the
\* element it stood on.
RECURSIVE scan_keep_dead(_, _, _)
scan_keep_dead(p, i, seen) ==
    IF i > Len(p) THEN [pool |-> p, found |-> None, probed |-> seen]
    ELSE LET client == p[i] IN
         IF client \in in_use THEN scan_keep_dead(p, i + 1, seen)
         ELSE IF probe(client) = "active"
              THEN [pool |-> p, found |-> client, probed |-> seen \cup {client}]
         ELSE scan_keep_dead(p, i + 1, seen \cup {client})

RECURSIVE scan(_, _, _)
scan(p, i, seen) ==
    IF i > Len(p) THEN [pool |-> p, found |-> None, probed |-> seen]
    ELSE LET client == p[i] IN
         IF client \in in_use THEN scan(p, i + 1, seen)
         ELSE IF probe(client) = "active"
              THEN [pool |-> p, found |-> client, probed |-> seen \cup {client}]
         ELSE scan(ListRemove(p, client), i + 1, seen \cup {client})

\* Line 35: is there room for a new connection
has_room_inclusive(p) == Len(p) <= max_connections

has_room(p) == Len(p) < max_connections

\* get_connection with the reused client appended to the list once more.
get_connection_result_reappends(connects) ==
    LET s == scan(pool, 1, {}) IN
    IF s.found # None
    THEN [pool |-> Append(s.pool, s.found), in_use |-> in_use \cup {s.found},
          probed |-> s.probed,
          client |-> s.found, created |-> None, error |-> ""]
    ELSE IF has_room(s.pool)
    THEN IF connects
         THEN [pool |-> Append(s.pool, nextId), in_use |-> in_use \cup {nextId},
               probed |-> s.probed,
               client |-> nextId, created |-> nextId, error |-> ""]
         ELSE [pool |-> s.pool, in_use |-> in_use, probed |-> s.probed,
               client |-> None, created |-> None, error |-> "ConnectFailed"]
    ELSE [pool |-> s.pool, in_use |-> in_use, probed |-> s.probed,
          client |-> None, created |-> None, error |-> "PoolFull"]

\* get_connection with the session whose creation failed kept in the list.
get_connection_result_keeps_failed(connects) ==
    LET s == scan(pool, 1, {}) IN
    IF s.found # None
    THEN [pool |-> s.pool, in_use |-> in_use \cup {s.found}, probed |-> s.probed,
          client |-> s.found, created |-> None, error |-> ""]
    ELSE IF has_room(s.pool)
    THEN IF connects
         THEN [pool |-> Append(s.pool, nextId), in_use |-> in_use \cup {nextId},
               probed |-> s.probed,
               client |-> nextId, created |-> nextId, error |-> ""]
         ELSE [pool |-> Append(s.pool, nextId), in_use |-> in_use,
               probed |-> s.probed,
               client |-> None, created |-> None, error |-> "ConnectFailed"]
    ELSE [pool |-> s.pool, in_use |-> in_use, probed |-> s.probed,
          client |-> None, created |-> None, error |-> "PoolFull"]

\* get_connection with the created session returned without being marked.
get_connection_result_unmarked(connects) ==
    LET s == scan(pool, 1, {}) IN
    IF s.found # None
    THEN [pool |-> s.pool, in_use |-> in_use \cup {s.found}, probed |-> s.probed,
          client |-> s.found, created |-> None, error |-> ""]
    ELSE IF has_room(s.pool)
    THEN IF connects
         THEN [pool |-> Append(s.pool, nextId), in_use |-> in_use,
               probed |-> s.probed,
               client |-> nextId, created |-> nextId, error |-> ""]
         ELSE [pool |-> s.pool, in_use |-> in_use, probed |-> s.probed,
               client |-> None, created |-> None, error |-> "ConnectFailed"]
    ELSE [pool |-> s.pool, in_use |-> in_use, probed |-> s.probed,
          client |-> None, created |-> None, error |-> "PoolFull"]

\* get_connection as a whole; connects tells whether _create_connection
\* succeeds should it be called.
get_connection_result(connects) ==
    LET s == scan(pool, 1, {}) IN
    IF s.found # None
    THEN [pool |-> s.pool, in_use |-> in_use \cup {s.found}, probed |-> s.probed,
          client |-> s.found, created |-> None, error |-> ""]
    ELSE IF has_room(s.pool)
    THEN IF connects
         THEN [pool |-> Append(s.pool, nextId), in_use |-> in_use \cup {nextId},
               probed |-> s.probed,
               client |-> nextId, created |-> nextId, error |-> ""]
         ELSE [pool |-> s.pool, in_use |-> in_use, probed |-> s.probed,
               client |-> None, created |-> None, error |-> "ConnectFailed"]
    ELSE [pool |-> s.pool, in_use |-> in_use, probed |-> s.probed,
          client |-> None, created |-> None, error |-> "PoolFull"]

\* _create_connection, lines 50-58: the transport of every session once the
\* call has connected the one it created.
create_connection(r) ==
    IF r.created # None THEN [transport EXCEPT ![r.created] = "active"]
    ELSE transport

\* The call went as far as line 36.
connecting(r) == r.created # None \/ r.error = "ConnectFailed"

\* What a call of get_connection that gives r does to the pool.
get_connection_call(r) ==
    /\ connecting(r) => nextId <= MaxSessions
    /\ pool' = r.pool
    /\ in_use' = r.in_use
    /\ transport' = create_connection(r)
    /\ nextId' = IF r.created # None THEN nextId + 1 ELSE nextId

get_connection ==
    \E connects \in BOOLEAN :
    \E r \in {get_connection_result(connects)} :
        /\ get_connection_call(r)
        /\ last' = [NoCall EXCEPT !.op = "get_connection", !.client = r.client,
                                  !.created = r.created, !.probed = r.probed,
                                  !.error = r.error,
                                  !.raised = (r.error # "")]
        /\ UNCHANGED <<max_connections, threadVars, appVars>>

\* -------------------------------------------------------- release_connection
\* Lines 45-46.
released_clears(used, client) == IF client \in used THEN used \ {client} ELSE {}

released(used, client) == IF client \in used THEN used \ {client} ELSE used

Created == 1..(nextId - 1)

\* The caller passes any SSHClient object: one of this pool, in-use or not,
\* or one the pool never had.
release_connection ==
    \E client \in Sessions :
        /\ in_use' = released(in_use, client)
        /\ last' = [NoCall EXCEPT !.op = "release_connection", !.client = client]
        /\ UNCHANGED <<max_connections, pool, transport, nextId, threadVars, appVars>>

\* ------------------------------------------------------------------ close_all
\* The loop of lines 62-66 from index i on: client.close() drops the
\* client's transport; a close that raises (the clients in failing) leaves
\* the client as it was. The result has the transports, the clients close()
\* was called on and whether an exception left the loop.
RECURSIVE close_each_stops(_, _, _, _, _)
close_each_stops(p, i, failing, tr, tried) ==
    IF i > Len(p) THEN [transport |-> tr, closed |-> tried, raised |-> FALSE]
    ELSE IF p[i] \in failing
         THEN [transport |-> tr, closed |-> tried \cup {p[i]}, raised |-> TRUE]
    ELSE close_each_stops(p, i + 1, failing, [tr EXCEPT ![p[i]] = "missing"],
                          tried \cup {p[i]})

RECURSIVE close_each(_, _, _, _, _)
close_each(p, i, failing, tr, tried) ==
    IF i > Len(p) THEN [transport |-> tr, closed |-> tried, raised |-> FALSE]
    ELSE IF p[i] \in failing
         THEN close_each(p, i + 1, failing, tr, tried \cup {p[i]})
    ELSE close_each(p, i + 1, failing, [tr EXCEPT ![p[i]] = "missing"],
                    tried \cup {p[i]})

\* Lines 62-68: the two clear() calls run once the loop is through.
close_all ==
    \E failing \in SUBSET Range(pool) :
    \E r \in {close_each(pool, 1, failing, transport, {})} :
        /\ transport' = r.transport
        /\ pool' = IF r.raised THEN pool ELSE <<>>
        /\ in_use' = IF r.raised THEN in_use ELSE {}
        /\ last' = [NoCall EXCEPT !.op = "close_all", !.probed = r.closed,
                                  !.raised = r.raised]
        /\ UNCHANGED <<max_connections, nextId, threadVars, appVars>>

\* -------------------------------------------------------------------- execute
\* What the remote side does with a command once exec_command was called:
\*   "exec_raises"  exec_command raises (the channel cannot be opened)
\*   "completed"    the command prints out and err and exits with status
\*   "closed"       the channel is closed before an exit status arrived, out
\*                  and err having been received: recv_exit_status returns -1
\*                  and the reads return what was received
\*   "read_raises"  the exit status arrived but a read times out
Outcomes ==
    {[kind |-> k, out |-> p.out, err |-> p.err, status |-> st] :
        k \in {"completed", "closed"}, p \in Printed, st \in ExitStatuses}
    \cup [kind : {"exec_raises", "read_raises"}, out : {<<>>}, err : {<<>>},
          status : {0}]

OutcomeKinds == {o.kind : o \in Outcomes}

\* Lines 98-105: the tuple the body of the with statement returns, or the
\* exception it raises.
run_command(o) ==
    CASE o.kind = "exec_raises" ->
            [error |-> "SSHException", stdout |-> <<>>, stderr |-> <<>>, exit_code |-> 0]
      [] o.kind = "read_raises" ->
            [error |-> "timeout", stdout |-> <<>>, stderr |-> <<>>, exit_code |-> 0]
      [] o.kind = "completed" ->
            [error |-> "", stdout |-> decode(o.out), stderr |-> decode(o.err),
             exit_code |-> o.status]
      [] o.kind = "closed" ->
            [error |-> "", stdout |-> decode(o.out), stderr |-> decode(o.err),
             exit_code |-> -1]

\* Lines 106-108: what execute does with an exception e that reaches it.
on_exception_reraise(e) ==
    [error |-> e, raised |-> TRUE, stdout |-> <<>>, stderr |-> <<>>, exit_code |-> 0]

on_exception(e) ==
    [error |-> e, raised |-> FALSE, stdout |-> <<>>, stderr |-> str(e), exit_code |-> -1]

\* Lines 89-91: the finally clause of _get_client.
get_client_exit_no_release(used, client) == used

get_client_exit(used, client) ==
    IF client # None THEN released(used, client) ELSE used

\* Lines 96-108 once get_connection gave r and the remote side did o.
execute_result(r, o) ==
    LET body == IF r.error # "" THEN [error |-> r.error] ELSE run_command(o)
    IN  IF body.error # "" THEN on_exception(body.error)
        ELSE [error |-> "", raised |-> FALSE, stdout |-> body.stdout,
              stderr |-> body.stderr, exit_code |-> body.exit_code]

\* What a call of execute does to the pool when its get_connection gives r
\* and the remote side does what kind says (see Outcomes).
execute_call(r, kind) ==
    /\ connecting(r) => nextId <= MaxSessions
    /\ pool' = r.pool
    /\ in_use' = get_client_exit(r.in_use, r.client)
    /\ transport' = IF r.client # None /\ kind = "closed"
                    THEN [create_connection(r) EXCEPT ![r.client] = "inactive"]
                    ELSE create_connection(r)
    /\ nextId' = IF r.created # None THEN nextId + 1 ELSE nextId

execute ==
    \E connects \in BOOLEAN :
    \E r \in {get_connection_result(connects)} :
    \E o \in IF r.error # "" THEN {CHOOSE x \in Outcomes : x.kind = "exec_raises"}
              ELSE Outcomes :
    \E ret \in {execute_result(r, o)} :
        /\ execute_call(r, o.kind)
        /\ last' = [op |-> "execute", client |-> r.client, created |-> r.created,
                    probed |-> r.probed,
                    command |-> IF r.error # "" THEN NoCommand ELSE o,
                    error |-> ret.error, raised |-> ret.raised, stdout |-> ret.stdout,
                    stderr |-> ret.stderr, exit_code |-> ret.exit_code]
        /\ UNCHANGED <<max_connections, threadVars, appVars>>

\* ------------------------------------------------------------- the transport
\* A session of the pool is no longer usable: its transport turned inactive,
\* the client was closed, or probing it raises.
TransportDies ==
    \E s \in Range(pool) \cup in_use : \E how \in Dead :
        /\ transport[s] = "active"
        /\ transport' = [transport EXCEPT ![s] = how]
        /\ last' = NoCall
        /\ UNCHANGED <<max_connections, pool, in_use, nextId, threadVars, appVars>>

\* ---------------------------------------------------------------- the rest
\* No request was received.
\* ------------------------------------------------------- image history
\* api/image_history.py.  The file holds a JSON array or, after a write that
\* stopped half way, something json.load rejects.  A record is told from
\* the others by its note, which here is the number of the call that added
\* it; id is what line 41 computes.
NoFile == [exists |-> FALSE, valid |-> FALSE, data |-> <<>>]

\* Lines 18-26: the array of the file; the empty list if the file is missing
\* or cannot be read.
load_history(f) ==
    IF f.exists
    THEN IF f.valid THEN f.data ELSE <<>>
    ELSE <<>>

\* Lines 29-35: open(..., 'w') and json.dump.  Either the array is written,
\* or open fails and the file is as before, or the dump stops after the file
\* was truncated; the exception of the last two is printed and swallowed.
SaveOutcomes == {"written", "failed", "truncated"}

save_history(f, history, outcome) ==
    CASE outcome = "written" ->
             [exists |-> TRUE, valid |-> TRUE, data |-> history]
      [] outcome = "failed" -> f
      [] outcome = "truncated" ->
             [exists |-> TRUE, valid |-> FALSE, data |-> <<>>]

\* Lines 46-47: history[:100].
keep_oldest(history) ==
    IF Len(history) > MaxHistory
    THEN SubSeq(history, Len(history) - MaxHistory + 1, Len(history))
    ELSE history

keep_recent(history) ==
    IF Len(history) > MaxHistory
    THEN SubSeq(history, 1, MaxHistory)
    ELSE history

\* Lines 41-47: the list that add_history_record hands to save_history.
with_record(history, note) ==
    keep_recent(<<[id |-> Len(history) + 1, note |-> note]>> \o history)

InitHistory ==
    /\ HISTORY_FILE = NoFile
    /\ added = 0
    /\ clearedAt = 0
    /\ faulty = FALSE

\* Lines 38-49.
add_history_record ==
    /\ added < MaxAdds
    /\ \E outcome \in SaveOutcomes :
        /\ HISTORY_FILE' =
               save_history(HISTORY_FILE,
                            with_record(load_history(HISTORY_FILE), added + 1),
                            outcome)
        /\ faulty' = (faulty \/ outcome # "written")
    /\ added' = added + 1
    /\ UNCHANGED <<clearedAt, limitVars>>
    /\ UNCHANGED <<poolVars, last, threadVars,
                   SSH_POOL_MAX_CONNECTIONS, request, own>>

\* Lines 115-119.
clear_history ==
    /\ \E outcome \in SaveOutcomes :
        /\ HISTORY_FILE' = save_history(HISTORY_FILE, <<>>, outcome)
        /\ faulty' = (faulty \/ outcome # "written")
    /\ clearedAt' = added
    /\ UNCHANGED <<added, limitVars>>
    /\ UNCHANGED <<poolVars, last, threadVars,
                   SSH_POOL_MAX_CONNECTIONS, request, own>>

\* --------------------------------------------------------- rate limiter
\* middleware/__init__.py.  Time is counted in ticks; the window of line 28
\* is Window ticks long.
IPs == {"10.0.0.1", "10.0.0.2"}

\* main.py, line 36: the limit the middleware is added with.
requests_per_minute == MaxRate

\* Line 28: the test that keeps a recorded time.
fresh(current_time, req_time) == current_time - req_time < Window

\* Lines 26-29.
pruned(times, current_time) ==
    SelectSeq(times, LAMBDA req_time : fresh(current_time, req_time))

\* Line 32.
over_limit_exclusive(times) == Len(times) > requests_per_minute

over_limit(times) == Len(times) >= requests_per_minute

\* Lines 15-18: defaultdict(list).
InitLimiter ==
    /\ requests = [ip \in IPs |-> <<>>]
    /\ clock = 0
    /\ admitted = [ip \in IPs |-> <<>>]
    /\ response = "none"

\* Lines 20-43, for a request of client_ip at the time of the clock.
dispatch ==
    \E client_ip \in IPs :
      \E kept \in {pruned(requests[client_ip], clock)} :
        /\ IF over_limit(kept)
           THEN /\ requests' = [requests EXCEPT ![client_ip] = kept]
                /\ response' = "429"
                /\ UNCHANGED admitted
           ELSE /\ requests' =
                       [requests EXCEPT ![client_ip] = Append(kept, clock)]
                /\ response' = "next"
                /\ admitted' =
                       [admitted EXCEPT ![client_ip] = Append(@, clock)]
        /\ UNCHANGED <<clock, histVars>>
        /\ UNCHANGED <<poolVars, last, threadVars,
                       SSH_POOL_MAX_CONNECTIONS, request, own>>

\* time.time() moves on.
Tick ==
    /\ clock < MaxClock
    /\ clock' = clock + 1
    /\ UNCHANGED <<requests, admitted, response, histVars>>
    /\ UNCHANGED <<poolVars, last, threadVars,
                   SSH_POOL_MAX_CONNECTIONS, request, own>>

NoRequest == [handler |-> "none", confirm |-> FALSE,
              stage |-> "none", status |-> 0, remaining |-> 0, loops |-> FALSE,
              validated |-> FALSE, reached |-> FALSE,
              executor |-> "none", thread |-> "none"]

\* A pool constructed with some max_connections, taken alone: no
\* configuration is read, no request is served.
Init ==
    /\ max_connections \in 1..MaxCapacity
    /\ pool = <<>>
    /\ in_use = {}
    /\ transport = [s \in Sessions |-> "uncreated"]
    /\ nextId = 1
    /\ last = NoCall
    /\ pc = [t \in Threads |-> "idle"]
    /\ idx = [t \in Threads |-> 0]
    /\ clientOf = [t \in Threads |-> None]
    /\ remote = [t \in Threads |-> "none"]
    /\ expired = [t \in Threads |-> FALSE]
    /\ result = [t \in Threads |-> NoResult]
    /\ SSH_POOL_MAX_CONNECTIONS = None
    /\ request = NoRequest
    /\ own = {}
    /\ InitHistory
    /\ InitLimiter

Next ==
    \/ get_connection
    \/ release_connection
    \/ close_all
    \/ execute
    \/ TransportDies

Spec == Init /\ [][Next]_vars

\* The history file taken alone: records are added and the history cleared.
NextHistory ==
    \/ add_history_record
    \/ clear_history

SpecHistory == Init /\ [][NextHistory]_vars

\* The rate limiter taken alone: requests arrive and time passes.
NextLimiter ==
    \/ dispatch
    \/ Tick

SpecLimiter == Init /\ [][NextLimiter]_vars

\* ==================================================== execute on worker threads
\* execute_async (lines 110-113) hands execute to a worker thread of the
\* default executor; nothing in the pool or the executor takes a lock, so the
\* threads interleave between any two of the steps below.
Goto(t, where) == pc' = [pc EXCEPT ![t] = where]

\* An exception e is raised in thread t: it is on its way to line 106.
Raise(t, e) ==
    result' = [result EXCEPT ![t] = [NoResult EXCEPT !.error = e,
                                                     !.context = result[t].error]]

\* Lines 96, 84, 21: execute is called and get_connection starts its loop.
t_call(t) ==
    /\ pc[t] \in {"idle", "returned"}
    /\ Goto(t, "iter")
    /\ idx' = [idx EXCEPT ![t] = 1]
    /\ clientOf' = [clientOf EXCEPT ![t] = None]
    /\ result' = [result EXCEPT ![t] = NoResult]
    /\ UNCHANGED <<poolVars, last, appVars, remote, expired>>

\* Lines 21-26: the iterator gives the next element, if there is one; the
\* in_use test and the probe decide what the body does with it. The iterator
\* is gone (idx 0) once the loop is left.
t_iter(t) ==
    /\ pc[t] = "iter"
    /\ IF idx[t] > Len(pool)
       THEN /\ Goto(t, "room")
            /\ idx' = [idx EXCEPT ![t] = 0]
            /\ UNCHANGED clientOf
       ELSE LET c == pool[idx[t]] IN
            /\ idx' = [idx EXCEPT ![t] =
                          IF c \notin in_use /\ probe(c) = "active" THEN 0
                          ELSE idx[t] + 1]
            /\ clientOf' = [clientOf EXCEPT ![t] = c]
            /\ IF c \in in_use THEN Goto(t, "iter")
               ELSE IF probe(c) = "active" THEN Goto(t, "mark")
               ELSE IF probe(c) = "broken" THEN Goto(t, "drop_except")
               ELSE Goto(t, "drop")
    /\ UNCHANGED <<poolVars, last, appVars, remote, expired, result>>

\* Lines 27-28 and 38-39: self.in_use.add(client); return client. The body
\* of the with statement starts.
t_mark(t) ==
    /\ pc[t] = "mark"
    /\ in_use' = in_use \cup {clientOf[t]}
    /\ Goto(t, "exec")
    /\ UNCHANGED <<max_connections, pool, transport, nextId, last, appVars, idx, clientOf,
                   remote, expired, result>>

\* Line 30: self.pool.remove(client) in the else branch; the ValueError of a
\* client that is no longer in the list is caught at line 31.
t_drop(t) ==
    /\ pc[t] = "drop"
    /\ IF clientOf[t] \in Range(pool)
       THEN pool' = ListRemove(pool, clientOf[t]) /\ Goto(t, "iter")
       ELSE pool' = pool /\ Goto(t, "drop_except")
    /\ UNCHANGED <<max_connections, in_use, transport, nextId, last, appVars, idx, clientOf,
                   remote, expired, result>>

\* Line 32: self.pool.remove(client) in the except branch; here the
\* ValueError leaves get_connection.
t_drop_except(t) ==
    /\ pc[t] = "drop_except"
    /\ IF clientOf[t] \in Range(pool)
       THEN /\ pool' = ListRemove(pool, clientOf[t])
            /\ Goto(t, "iter")
            /\ UNCHANGED <<clientOf, result>>
       ELSE /\ pool' = pool
            /\ Goto(t, "return")
            /\ clientOf' = [clientOf EXCEPT ![t] = None]
            /\ Raise(t, "ValueError")
    /\ UNCHANGED <<max_connections, in_use, transport, nextId, last, appVars, idx,
                   remote, expired>>

\* Lines 35 and 41: the test for room, and the exception when there is none.
t_room(t) ==
    /\ pc[t] = "room"
    /\ IF has_room(pool)
       THEN Goto(t, "connect") /\ UNCHANGED <<clientOf, result>>
       ELSE /\ Goto(t, "return")
            /\ clientOf' = [clientOf EXCEPT ![t] = None]
            /\ Raise(t, "PoolFull")
    /\ UNCHANGED <<poolVars, last, appVars, idx, remote, expired>>

\* Line 36: _create_connection connects, or raises.
t_connect(t) ==
    /\ pc[t] = "connect"
    /\ nextId <= MaxSessions
    /\ \/ /\ clientOf' = [clientOf EXCEPT ![t] = nextId]
          /\ transport' = [transport EXCEPT ![nextId] = "active"]
          /\ nextId' = nextId + 1
          /\ Goto(t, "append")
          /\ UNCHANGED result
       \/ /\ clientOf' = [clientOf EXCEPT ![t] = None]
          /\ Raise(t, "ConnectFailed")
          /\ Goto(t, "return")
          /\ UNCHANGED <<transport, nextId>>
    /\ UNCHANGED <<max_connections, pool, in_use, last, appVars, idx, remote, expired>>

\* Line 37: self.pool.append(client).
t_append(t) ==
    /\ pc[t] = "append"
    /\ pool' = Append(pool, clientOf[t])
    /\ Goto(t, "mark")
    /\ UNCHANGED <<max_connections, in_use, transport, nextId, last, appVars, idx, clientOf,
                   remote, expired, result>>

\* Line 98: exec_command opens a channel and starts the command, or raises;
\* it raises when the transport is not active.
t_exec(t) ==
    /\ pc[t] = "exec"
    /\ \/ /\ transport[clientOf[t]] = "active"
          /\ remote' = [remote EXCEPT ![t] = "running"]
          /\ Goto(t, "wait")
          /\ UNCHANGED result
       \/ /\ Raise(t, "SSHException")
          /\ Goto(t, "release")
          /\ UNCHANGED remote
    /\ UNCHANGED <<poolVars, last, appVars, idx, clientOf, expired>>

\* Line 99: recv_exit_status waits, without a timeout, until the exit status
\* has arrived or the channel is closed; on a closed channel it returns -1.
t_wait(t) ==
    /\ pc[t] = "wait"
    /\ remote[t] \in {"exited", "closed"}
    /\ \E st \in ExitStatuses :
          result' = [result EXCEPT ![t].exit_code =
                        IF remote[t] = "exited" THEN st ELSE -1]
    /\ Goto(t, "read")
    /\ UNCHANGED <<poolVars, last, appVars, idx, clientOf, remote, expired>>

\* Lines 101-102: the reads return what the command printed, decoded, or
\* time out on a channel that is still open.
t_read(t) ==
    /\ pc[t] = "read"
    /\ \/ \E p \in Printed :
             result' = [result EXCEPT ![t].stdout = decode(p.out),
                                      ![t].stderr = decode(p.err)]
       \/ /\ remote[t] = "exited"
          /\ Raise(t, "timeout")
    /\ Goto(t, "release")
    /\ UNCHANGED <<poolVars, last, appVars, idx, clientOf, remote, expired>>

\* Lines 90-91 and 45: the finally clause calls release_connection, which
\* tests whether the client is in in_use.
t_release(t) ==
    /\ pc[t] = "release"
    /\ IF clientOf[t] \in in_use THEN Goto(t, "release_remove")
       ELSE Goto(t, "return")
    /\ UNCHANGED <<poolVars, last, appVars, idx, clientOf, remote, expired, result>>

\* Line 46: self.in_use.remove(client); the KeyError of a client that is no
\* longer in the set leaves the finally clause.
t_release_remove(t) ==
    /\ pc[t] = "release_remove"
    /\ IF clientOf[t] \in in_use
       THEN in_use' = in_use \ {clientOf[t]} /\ UNCHANGED result
       ELSE in_use' = in_use /\ Raise(t, "KeyError")
    /\ Goto(t, "return")
    /\ UNCHANGED <<max_connections, pool, transport, nextId, last, appVars, idx, clientOf,
                   remote, expired>>

\* Lines 105 and 106-108: execute returns the tuple of the body, or the tuple
\* made of the exception that reached it.
t_return(t) ==
    /\ pc[t] = "return"
    /\ result' = [result EXCEPT ![t] =
                     IF result[t].error # ""
                     THEN [x \in DOMAIN NoResult |->
                              IF x = "context" THEN result[t].context
                              ELSE on_exception(result[t].error)[x]]
                     ELSE result[t]]
    /\ Goto(t, "returned")
    /\ idx' = [idx EXCEPT ![t] = 0]
    /\ clientOf' = [clientOf EXCEPT ![t] = None]
    /\ remote' = [remote EXCEPT ![t] = "none"]
    /\ expired' = [expired EXCEPT ![t] = FALSE]
    /\ UNCHANGED <<poolVars, last, appVars>>

\* The remote command of thread t ends and its exit status arrives.
RemoteExits(t) ==
    /\ remote[t] = "running"
    /\ remote' = [remote EXCEPT ![t] = "exited"]
    /\ UNCHANGED <<poolVars, last, appVars, pc, idx, clientOf, expired, result>>

\* The timeout given to execute passes while the command is still running.
TimeoutPasses(t) ==
    /\ remote[t] = "running"
    /\ ~expired[t]
    /\ expired' = [expired EXCEPT ![t] = TRUE]
    /\ UNCHANGED <<poolVars, last, appVars, pc, idx, clientOf, remote, result>>

\* The connection of a session the pool or a thread holds is lost: its
\* transport turns inactive and the channels of the commands running on it
\* are closed.
ConnectionLost(s) ==
    /\ s \in Range(pool) \cup in_use \cup {clientOf[t] : t \in Threads}
    /\ transport[s] = "active"
    /\ transport' = [transport EXCEPT ![s] = "inactive"]
    /\ remote' = [t \in Threads |->
                     IF clientOf[t] = s /\ remote[t] = "running" THEN "closed"
                     ELSE remote[t]]
    /\ UNCHANGED <<max_connections, pool, in_use, nextId, last, appVars, pc, idx, clientOf,
                   expired, result>>

ThreadStep(t) ==
    \/ t_call(t)
    \/ t_iter(t)
    \/ t_mark(t)
    \/ t_drop(t)
    \/ t_drop_except(t)
    \/ t_room(t)
    \/ t_connect(t)
    \/ t_append(t)
    \/ t_exec(t)
    \/ t_wait(t)
    \/ t_read(t)
    \/ t_release(t)
    \/ t_release_remove(t)
    \/ t_return(t)

NextConc ==
    \/ \E t \in Threads : ThreadStep(t)
    \/ \E t \in Threads : RemoteExits(t)
    \/ \E t \in Threads : TimeoutPasses(t)
    \/ \E s \in Sessions : ConnectionLost(s)

SpecConc == Init /\ [][NextConc]_vars

\* ================================================== the request handlers
\* SpecApp: the panel serves requests one after another. ssh_executor is the
\* process-wide SSHExecutor of line 120; its pool is pool, in_use. Of a
\* request the model keeps which handler serves it, the confirm flag of its
\* body, how far the handler is, the status of the answer, the commands the
\* handler has still to issue and whether it issues them in an endless
\* loop, whether verify_token accepted a token for it,
\* whether the handler reached an executor or a pool, which executor, and
\* the thread the remote call ran on. What the commands return is not kept:
\* last stays as it is.

\* The default of the parameter max_connections of SSHConnectionPool.__init__
\* (5), scaled to the bound on capacities.
DEFAULT_MAX_CONNECTIONS == MaxCapacity

\* The Authorization header of a request: none, a bearer token jwt.decode
\* rejects (bad signature, expired), a bearer token it accepts.
Tokens == {"absent", "rejected", "valid"}

\* auth.py, lines 21-34: the payload is returned for a token jwt.decode
\* accepts, HTTPException 401 is raised for any other.
verify_token(token) == token = "valid"

\* The handlers that await ssh_executor.execute_async: whether the signature
\* has Depends(verify_token), whether the body starts with the test of
\* confirm, how many commands the body issues, whether it issues them in an
\* endless loop.
Handler_unconfirmed(name, depends, confirm, commands) ==
    [name |-> name, depends |-> depends, confirm |-> FALSE,
     commands |-> commands, loops |-> FALSE]

Handler(name, depends, confirm, commands) ==
    [name |-> name, depends |-> depends, confirm |-> confirm,
     commands |-> commands, loops |-> FALSE]

\* api/status.py
StatusHandlers == { Handler("get_status", TRUE, FALSE, 1) }

\* api/service.py
ServiceHandlers ==
    { Handler("start_service", TRUE, FALSE, 1),
      Handler("stop_service", TRUE, TRUE, 1),
      Handler("restart_service", TRUE, FALSE, 1),
      Handler("update_code", TRUE, TRUE, 1),
      Handler("clean_logs", TRUE, TRUE, 1),
      Handler("rebuild_images", TRUE, TRUE, 1),
      Handler("service.health_check", TRUE, FALSE, 3) }

\* api/logs.py; stream_logs is the WebSocket route, its loop runs until the
\* client is gone.
LogsHandlers ==
    { Handler("get_logs", TRUE, FALSE, 1),
      [Handler("stream_logs", FALSE, FALSE, 1) EXCEPT !.loops = TRUE] }

\* api/diagnose.py
DiagnoseHandlers == { Handler("diagnose", TRUE, FALSE, 5) }

\* api/backup.py
BackupHandlers ==
    { Handler("list_backups", TRUE, FALSE, 1),
      Handler("create_backup", TRUE, FALSE, 1) }

\* api/config_api.py
ConfigHandlers ==
    { Handler("get_config", TRUE, FALSE, 1),
      Handler("update_config", TRUE, TRUE, 2) }

\* api/disk.py
DiskHandlers ==
    { Handler("get_disk_usage", TRUE, FALSE, 4),
      Handler("clean_docker_cache", TRUE, TRUE, 1),
      Handler("clean_docker_images", TRUE, TRUE, 1),
      Handler("clean_old_logs", TRUE, TRUE, 1) }

\* main.py, lines 48-55: the routers of these handlers.
AsyncHandlers ==
    StatusHandlers \cup ServiceHandlers \cup LogsHandlers \cup DiagnoseHandlers
    \cup BackupHandlers \cup ConfigHandlers \cup DiskHandlers

\* What the dependency Depends(verify_token) answers before the handler is
\* called: 403 from HTTPBearer when there is no Authorization header, 401
\* from verify_token, 0 when the handler may run.
dependency(token) ==
    IF token = "absent" THEN 403
    ELSE IF ~verify_token(token) THEN 401
    ELSE 0

Served == request.stage # "running"

Responded(h, confirm, status, validated) ==
    [NoRequest EXCEPT !.handler = h, !.confirm = confirm,
                      !.stage = "done", !.status = status,
                      !.validated = validated]

\* A request for one of the AsyncHandlers arrives: the dependency is
\* resolved, the handler is called and runs up to its first await.
begin_request ==
    \E h \in AsyncHandlers : \E token \in Tokens : \E confirm \in BOOLEAN :
        /\ Served
        /\ request' =
              IF h.depends /\ dependency(token) # 0
              THEN Responded(h.name, confirm, dependency(token), FALSE)
              ELSE IF h.confirm /\ ~confirm
              THEN Responded(h.name, confirm, 400, h.depends)
              ELSE [NoRequest EXCEPT !.handler = h.name,
                                     !.confirm = confirm, !.stage = "running",
                                     !.remaining = h.commands,
                                     !.loops = h.loops,
                                     !.validated = h.depends]
        /\ UNCHANGED <<poolVars, last, threadVars, SSH_POOL_MAX_CONNECTIONS, own, sideVars>>

\* await ssh_executor.execute_async(cmd): lines 110-113 hand the call of
\* execute to a worker thread of the default executor.
await_execute_async ==
    \E connects \in BOOLEAN :
    \E r \in {get_connection_result(connects)} :
    \E kind \in IF r.error # "" THEN {"exec_raises"} ELSE OutcomeKinds :
        /\ request.stage = "running"
        /\ request.remaining > 0
        /\ execute_call(r, kind)
        /\ request' = [request EXCEPT
                          !.remaining = IF request.loops THEN @ ELSE @ - 1,
                          !.reached = TRUE,
                          !.executor = "ssh_executor",
                          !.thread = "worker"]
        /\ UNCHANGED <<max_connections, last, threadVars, SSH_POOL_MAX_CONNECTIONS, own, sideVars>>

\* The handler has issued its commands and returns.
return_response ==
    /\ request.stage = "running"
    /\ request.remaining = 0
    /\ request' = [request EXCEPT !.stage = "done", !.status = 200]
    /\ UNCHANGED <<poolVars, last, threadVars, SSH_POOL_MAX_CONNECTIONS, own, sideVars>>

\* logs.py, lines 28-31: the client of stream_logs is gone, send_json raises
\* and the handler ends.
stream_logs_ends ==
    /\ request.stage = "running"
    /\ request.loops
    /\ request.reached
    /\ request' = [request EXCEPT !.stage = "done", !.remaining = 0,
                                  !.loops = FALSE]
    /\ UNCHANGED <<poolVars, last, threadVars, SSH_POOL_MAX_CONNECTIONS, own, sideVars>>

\* diagnose.py, lines 46 and 57: int() raises on an output that is not a
\* number; the exception handler of the application answers 500.
diagnose_raises ==
    /\ request.stage = "running"
    /\ request.handler = "diagnose"
    /\ request.remaining <= 1
    /\ request' = [request EXCEPT !.stage = "done", !.status = 500,
                                  !.remaining = 0]
    /\ UNCHANGED <<poolVars, last, threadVars, SSH_POOL_MAX_CONNECTIONS, own, sideVars>>

\* main.py, lines 73-93: GET /health. The handler has no dependency; it
\* calls ssh_executor.pool.get_connection() itself, keeps what it gets and
\* answers 200 whether the call raised or not.
health_check ==
    \E connects \in BOOLEAN :
    \E r \in {get_connection_result(connects)} :
        /\ Served
        /\ get_connection_call(r)
        /\ request' = [Responded("health_check", FALSE, 200, FALSE)
                          EXCEPT !.reached = TRUE,
                                 !.executor = "ssh_executor",
                                 !.thread = "loop"]
        /\ UNCHANGED <<max_connections, last, threadVars, SSH_POOL_MAX_CONNECTIONS, own, sideVars>>

\* image_history.py, lines 65-90: GET /image/current. The handler builds an
\* SSHExecutor of its own, whose pool is empty, and calls execute on it
\* itself: a session is created in that pool and the command runs on it.
\* result is a tuple, so result.get raises and the answer is 500.
get_current_images ==
    \E token \in Tokens : \E connects \in BOOLEAN : \E kind \in OutcomeKinds :
        /\ Served
        /\ IF dependency(token) # 0
           THEN /\ request' = Responded("get_current_images", FALSE,
                                        dependency(token), FALSE)
                /\ UNCHANGED <<transport, nextId, own>>
           ELSE /\ nextId <= MaxSessions
                /\ request' = [Responded("get_current_images", FALSE, 500, TRUE)
                                  EXCEPT !.reached = TRUE,
                                         !.executor = "own",
                                         !.thread = "loop"]
                /\ IF connects
                   THEN /\ transport' = [transport EXCEPT ![nextId] =
                                            IF kind = "closed" THEN "inactive"
                                            ELSE "active"]
                        /\ nextId' = nextId + 1
                        /\ own' = own \cup {nextId}
                   ELSE UNCHANGED <<transport, nextId, own>>
        /\ UNCHANGED <<max_connections, pool, in_use, last, threadVars,
                       SSH_POOL_MAX_CONNECTIONS, sideVars>>

\* main.py, lines 62-67: POST /api/auth/login.
login ==
    \E password \in BOOLEAN :
        /\ Served
        /\ request' = Responded("login", FALSE,
                                IF password THEN 200 ELSE 401, FALSE)
        /\ UNCHANGED <<poolVars, last, threadVars, SSH_POOL_MAX_CONNECTIONS, own, sideVars>>

\* main.py, lines 69-71: GET /api/ping.
ping ==
    /\ Served
    /\ request' = Responded("ping", FALSE, 200, FALSE)
    /\ UNCHANGED <<poolVars, last, threadVars, SSH_POOL_MAX_CONNECTIONS, own, sideVars>>

\* The SSHExecutor of a get_current_images that has returned is garbage:
\* when the interpreter collects it, the transport of its client is closed.
Collected ==
    \E s \in own :
        /\ own' = own \ {s}
        /\ transport' = [transport EXCEPT ![s] = "missing"]
        /\ UNCHANGED <<max_connections, pool, in_use, nextId, last, threadVars,
                       SSH_POOL_MAX_CONNECTIONS, request, sideVars>>

\* config.py, line 30, and lines 73-77, 119-120: the configuration is
\* loaded with some pool size; ssh_executor is built by SSHExecutor(), whose
\* pool is built by SSHConnectionPool() with no argument.
InitApp ==
    /\ SSH_POOL_MAX_CONNECTIONS \in 1..(MaxCapacity + 1)
    /\ max_connections = DEFAULT_MAX_CONNECTIONS
    /\ pool = <<>>
    /\ in_use = {}
    /\ transport = [s \in Sessions |-> "uncreated"]
    /\ nextId = 1
    /\ last = NoCall
    /\ pc = [t \in Threads |-> "idle"]
    /\ idx = [t \in Threads |-> 0]
    /\ clientOf = [t \in Threads |-> None]
    /\ remote = [t \in Threads |-> "none"]
    /\ expired = [t \in Threads |-> FALSE]
    /\ result = [t \in Threads |-> NoResult]
    /\ request = NoRequest
    /\ own = {}
    /\ InitHistory
    /\ InitLimiter

NextApp ==
    \/ begin_request
    \/ await_execute_async
    \/ return_response
    \/ stream_logs_ends
    \/ diagnose_raises
    \/ health_check
    \/ get_current_images
    \/ login
    \/ ping
    \/ Collected

SpecApp == InitApp /\ [][NextApp]_vars

\* The requests for the handlers that await ssh_executor.execute_async taken
\* alone, served one after another.
NextAsync ==
    \/ begin_request
    \/ await_execute_async
    \/ return_response
    \/ stream_logs_ends
    \/ diagnose_raises

SpecAsync == InitApp /\ [][NextAsync]_vars

\* ===================================================================== claims
\* Vocabulary of the claims. acquire is get_connection, also when execute
\* makes the call; idle are the pool members not marked in-use.
Idle == Range(pool) \ in_use

Acquired == last'.op \in {"get_connection", "execute"}

\* positions of the idle sessions of the pool whose transport is live
LiveIdle == {i \in 1..Len(pool) : pool[i] \notin in_use /\ transport[pool[i]] = "active"}

FirstLiveIdle == pool[CHOOSE i \in LiveIdle : \A j \in LiveIdle : i <= j]

\* Thread t has been given clientOf[t] by get_connection and its
\* release_connection has not finished.
Holding(t) == pc[t] \in {"exec", "wait", "read", "release", "release_remove"}

\* The threads whose command was issued and has not been read to its end.
InFlight == {t \in Threads : pc[t] \in {"wait", "read"}}

\* C1: under every interleaving of concurrent execute calls, no two callers
\* hold the same session at the same time.
C1_ExclusiveCheckout ==
    \A t, u \in Threads :
        (t # u /\ Holding(t) /\ Holding(u)) => clientOf[t] # clientOf[u]

\* C2: for calls made one after another, with any mix of live and dead
\* sessions, |idle| + |in-use| is at most max_connections in every state.
C2_PoolBounded ==
    Cardinality(Idle) + Cardinality(in_use) <= max_connections

\* The pool is full after more sessions were created than it can hold, a
\* dead session among its members.
C2_Witness ==
    /\ Len(pool) = max_connections
    /\ nextId > max_connections + 1
    /\ \E s \in Range(pool) : transport[s] \in Dead

\* C3: under every interleaving of concurrent execute calls, neither the
\* number of commands in flight nor the number of sessions in the pool
\* exceeds max_connections (a caller that finds the pool exhausted is not
\* queued: it fails, as C9 states for one call).
C3_InFlightBounded ==
    /\ Cardinality(InFlight) <= max_connections
    /\ Len(pool) <= max_connections

\* C4: when execute returns, the session it acquired is not marked in-use,
\* whether the command succeeded, failed or timed out.
C4_ReleasedOnReturn ==
    (last.op = "execute" /\ last.client # None) => last.client \notin in_use

\* execute returned from a command that timed out on a session it acquired.
C4_Witness ==
    /\ last.op = "execute"
    /\ last.client # None
    /\ last.error = "timeout"
    /\ last.client \in Range(pool)

C6_TimedOutReturnsMinusOne ==
    [][\A t \in Threads :
          (pc[t] = "return" /\ pc'[t] = "returned" /\ expired[t]) =>
              result'[t].exit_code = -1]_vars

\* C7: whenever the pool has an idle session with a live transport, acquire
\* returns the first such session in pool order and creates none.
C7_ReusesFirstLiveIdle ==
    [][(Acquired /\ LiveIdle # {}) =>
          (last'.client = FirstLiveIdle /\ last'.created = None)]_vars

\* C8: a session whose probe reports it dead is removed from the pool by that
\* acquire; acquire returns no session whose probe reported it dead: what it
\* returns was live when probed or is fresh, and when only dead sessions were
\* probed the call goes on to create one.
C8_DeadDropped ==
    [][Acquired =>
          /\ \A s \in last'.probed :
                transport[s] \in Dead => (s \notin Range(pool') /\ last'.client # s)
          /\ last'.client # None =>
                (last'.client = last'.created \/ transport[last'.client] = "active")
          /\ (last'.probed # {} /\ \A s \in last'.probed : transport[s] \in Dead) =>
                (last'.created # None \/ last'.error = "ConnectFailed")]_vars

\* acquire probed a dead session, dropped it and returned a fresh one.
C8_Witness ==
    /\ last.op = "get_connection"
    /\ \E s \in last.probed : transport[s] \in Dead /\ s \notin Range(pool)
    /\ last.created # None
    /\ last.client = last.created

\* C9: with max_connections sessions in the pool, all of them in-use, acquire
\* fails with the pool-exhausted error, creates no session and leaves the
\* pool list and the in-use set as they were.
C9_ExhaustedFails ==
    [][(Acquired /\ Len(pool) = max_connections /\ Range(pool) \subseteq in_use) =>
          /\ last'.error = "PoolFull"
          /\ last'.created = None
          /\ nextId' = nextId
          /\ pool' = pool
          /\ in_use' = in_use]_vars

\* acquire has just failed on a pool that is full and all in-use.
C9_Witness ==
    /\ last.op = "get_connection"
    /\ last.error = "PoolFull"
    /\ Len(pool) = max_connections
    /\ Range(pool) \subseteq in_use

\* C10: for calls made one after another, acquire fails with the
\* pool-exhausted error only when the pool is at capacity with no idle live
\* session; with fewer than max_connections sessions in-use and a creation
\* that would succeed it returns a session.
C10_ExhaustedOnlyAtCapacity ==
    [][Acquired =>
          /\ last'.error = "PoolFull" =>
                (Len(pool) >= max_connections /\ LiveIdle = {})
          /\ (Cardinality(in_use) < max_connections /\ last'.error # "ConnectFailed") =>
                last'.client # None]_vars

\* acquire returned a fresh session from a pool that was full of dead idle
\* sessions: it dropped one it probed, the others are still there.
C10_Witness ==
    /\ last.op = "get_connection"
    /\ last.created # None
    /\ last.probed # {}
    /\ in_use = {last.created}
    /\ Len(pool) = max_connections
    /\ \A i \in 1..(Len(pool) - 1) : transport[pool[i]] \in Dead

\* C11: release_connection on a session that is not marked in-use (released
\* before, never handed out by this pool, or dropped by close_all) does not
\* raise and leaves the pool list and the in-use set as they were; the idle
\* sessions are the same after a double release.
C11_ReleaseNotInUseNoOp ==
    [][(last'.op = "release_connection" /\ last'.client \notin in_use) =>
          /\ ~last'.raised
          /\ pool' = pool
          /\ in_use' = in_use
          /\ Idle' = Idle]_vars

\* release_connection was called on a session that is in no pool any more,
\* while another session is in-use.
C11_Witness ==
    /\ last.op = "release_connection"
    /\ last.client \in Created
    /\ last.client \notin Range(pool)
    /\ in_use # {}

\* C12: in every state a session is not both idle and in-use (the idle
\* sessions being the pool members not marked in-use), and no session is in
\* the pool list twice.
C12_IdleInUseDisjoint ==
    /\ Idle \cap in_use = {}
    /\ \A i, j \in 1..Len(pool) : pool[i] = pool[j] => i = j

\* The pool holds an in-use and an idle session after a reuse, a session
\* having been dropped and replaced before.
C12_Witness ==
    /\ Len(pool) = 2
    /\ Cardinality(in_use) = 1
    /\ Cardinality(Idle) = 1
    /\ nextId > 3
    /\ last.op = "get_connection"
    /\ last.client # None
    /\ last.created = None

\* C13: close_all calls close() on every session of the pool, idle or
\* in-use, goes on after a close that fails, raises nothing, and leaves the
\* pool list and the in-use set empty.
C13_CloseAllEmpties ==
    [][last'.op = "close_all" =>
          /\ last'.probed = Range(pool)
          /\ ~last'.raised
          /\ pool' = <<>>
          /\ in_use' = {}
          /\ Idle' = {}]_vars

\* close_all went through two sessions: the close of one failed and left
\* its transport active, the other one was closed.
C13_Witness ==
    /\ last.op = "close_all"
    /\ Cardinality(last.probed) = 2
    /\ \E s \in last.probed : transport[s] = "active"
    /\ \E s \in last.probed : transport[s] = "missing"
    /\ pool = <<>>

\* The exit status of the command arrived: it ran to its end on the host.
RanToCompletion == last.command.kind \in {"completed", "read_raises"}

\* C14: exit_code -1 is kept for failures of the executor: when execute
\* returns exit_code -1 an exception was raised while acquiring or executing
\* and stdout is empty, and a command that ran to its end on the remote host
\* is not reported with exit_code -1.
C14_MinusOneMeansFailure ==
    last.op = "execute" =>
        /\ last.exit_code = -1 => (last.error # "" /\ last.stdout = <<>>)
        /\ RanToCompletion => last.exit_code # -1

\* execute acquired a session and the command ran to its end and was read.
Succeeded ==
    last.op = "execute" /\ last.error = "" /\ last.command.kind = "completed"

\* The bytes of b that are valid UTF-8, in their order.
Decodable(b) == SelectSeq(b, LAMBDA x : x # "xFF")

\* C15: when acquiring and executing both succeed, execute returns the
\* exit status of the command and what it printed on stdout and on stderr
\* with the bytes that are not valid UTF-8 left out: exactly its output when
\* that is valid UTF-8; a command that succeeds silently gives exit_code 0
\* and empty stderr.
C15_ReturnsDecodedOutput ==
    Succeeded =>
        /\ last.stdout = Decodable(last.command.out)
        /\ last.stderr = Decodable(last.command.err)
        /\ last.exit_code = last.command.status
        /\ (last.command.err = <<>> /\ last.command.status = 0) =>
              (last.exit_code = 0 /\ last.stderr = <<>>)

\* execute returned from a command that printed undecodable bytes and
\* exited with status 1.
C15_Witness ==
    /\ Succeeded
    /\ last.command.out = <<"xFF", "a">>
    /\ last.stdout = <<"a">>
    /\ last.exit_code = 1

\* C15 as stated: when acquiring and executing both succeed, execute returns
\* exactly what the command printed on stdout and on stderr, and its exit
\* status.
C15_ReturnsExactOutput ==
    Succeeded =>
        /\ last.stdout = last.command.out
        /\ last.stderr = last.command.err
        /\ last.exit_code = last.command.status

\* No connection to the host was lost: every session created is live.
HostHealthy == \A s \in Created : transport[s] = "active"

\* The host did what the call of thread t asked of it: the command was
\* started, its exit status arrived and its output was read, or the call
\* ended in the pool before the host was asked for anything.
HostServed(t) ==
    \/ /\ remote[t] = "exited"
       /\ result[t].error # "timeout"
       /\ result[t].context # "timeout"
    \/ result[t].error \in {"PoolFull", "ValueError"}

\* The call of thread t has returned what the command gave.
ReturnedSuccess(t) ==
    pc[t] = "returned" /\ result[t].error = "" /\ result[t].exit_code # -1

\* C16: with a healthy host (no session creation and no command fails, no
\* connection is lost) and no more concurrent execute calls than
\* max_connections, every call succeeds under every interleaving: none
\* returns exit_code -1.
C16_ConcurrentRunsSucceed ==
    [][\A t \in Threads :
          (/\ pc[t] = "return" /\ pc'[t] = "returned"
           /\ NumThreads <= max_connections
           /\ HostHealthy
           /\ HostServed(t)
           /\ \A u \in Threads \ {t} : pc[u] = "idle" \/ ReturnedSuccess(u)) =>
              result'[t].exit_code # -1]_vars

\* C17: no request reaches the executor or a pool (acquires a session or
\* issues a remote command) unless verify_token accepted a bearer token for
\* that request; this holds for every route, the WebSocket log stream and
\* /health among them.
C17_TokenBeforeExecutor ==
    request.reached => request.validated

\* C18: the pool of ssh_executor is bounded by the configured size: with
\* SSH_POOL_MAX_CONNECTIONS set to N it never holds more than N sessions,
\* and it has room for another one while it holds fewer than N.
C18_PoolBoundedByConfig ==
    /\ Len(pool) <= SSH_POOL_MAX_CONNECTIONS
    /\ Len(pool) < SSH_POOL_MAX_CONNECTIONS => has_room(pool)

\* The sessions the process holds open to the host.
Open == {s \in Sessions : transport[s] = "active"}

\* C19: every remote command goes through ssh_executor and its pool, so
\* after any sequence of requests the process holds at most max_connections
\* open sessions to the host.
C19_OneExecutor ==
    /\ request.executor \in {"none", "ssh_executor"}
    /\ Cardinality(Open) <= max_connections

\* C20: every blocking remote operation a handler triggers (creating a
\* session, the liveness scan, running a command) runs on a worker thread
\* by way of execute_async, never on the thread of the event loop.
C20_OffloadedToWorker ==
    request.reached => request.thread = "worker"

\* C21: a session that leaves the pool is closed: the sessions an acquire
\* drops because their probe failed are closed by that acquire, as close_all
\* closes the sessions it removes.
C21_DroppedAreClosed ==
    [][Acquired =>
          \A s \in Range(pool) \ Range(pool') : transport'[s] = "missing"]_vars

\* Vocabulary of the history claims: the stored history is what load_history
\* reads; the records added since the last clear carry the notes
\* clearedAt+1 .. added, and the most recent MaxHistory of them, newest
\* first, are MostRecent.
Stored == load_history(HISTORY_FILE)
Notes(history) == [i \in 1..Len(history) |-> history[i].note]
SinceClear == added - clearedAt
MostRecent ==
    [i \in 1..(IF SinceClear > MaxHistory THEN MaxHistory ELSE SinceClear) |->
        added - i + 1]

C28_IdsDistinct ==
    \A i, j \in 1..Len(Stored) : i # j => Stored[i].id # Stored[j].id

\* Vocabulary of the rate limiter claim: of a list of times, those that lie
\* in the window that ends now, the window being open at its far end.
InWindow(times) == SelectSeq(times, LAMBDA t : clock - t < Window)

\* C29: for every client IP, at every point in time, the limiter has
\* admitted at most requests_per_minute requests of that IP during the
\* preceding window; the times it has recorded in the window are those of
\* the admitted requests and no others, so a request it rejected is not
\* counted.
C29_AtMostRatePerWindow ==
    \A ip \in IPs :
        /\ Len(InWindow(admitted[ip])) <= requests_per_minute
        /\ InWindow(requests[ip]) = InWindow(admitted[ip])

\* A request was rejected with the window of its IP full, after older
\* requests of that IP had left the window.
C29_Witness ==
    /\ response = "429"
    /\ \E ip \in IPs :
        /\ Len(InWindow(admitted[ip])) = requests_per_minute
        /\ Len(admitted[ip]) > requests_per_minute

\* C23: when the creation of a new session fails during an acquire, the
\* failure is raised to the caller of the acquire after that one attempt, no
\* session is constructed into the pool or the in-use set, and the pool does
\* not grow.
C23_CreationFailureRaised ==
    [][(last'.op = "get_connection" /\ last'.error = "ConnectFailed") =>
          /\ last'.raised
          /\ last'.client = None
          /\ last'.created = None
          /\ Range(pool') \subseteq Range(pool)
          /\ Len(pool') <= Len(pool)
          /\ in_use' = in_use
          /\ nextId' = nextId]_vars

\* An acquire failed to create a session, with a session of the pool held
\* by a caller.
C23_Witness ==
    /\ last.op = "get_connection"
    /\ last.error = "ConnectFailed"
    /\ last.raised
    /\ in_use # {}

\* C25: whenever an acquire returns a session, reused or newly created, the
\* session is then in the pool and marked in-use, and no other session has
\* its in-use mark changed by the call.
C25_ReturnedIsMarked ==
    [][(last'.op = "get_connection" /\ last'.client # None) =>
          /\ last'.client \in Range(pool')
          /\ last'.client \in in_use'
          /\ in_use' \ {last'.client} = in_use \ {last'.client}]_vars

\* An acquire created a session while another session was held, after an
\* acquire that reused one.
C25_Witness ==
    /\ last.op = "get_connection"
    /\ last.created # None
    /\ last.client = last.created
    /\ in_use \ {last.client} # {}
    /\ last.client \in in_use

\* C27: under every interleaving of concurrent calls, every session marked
\* in-use is a member of the pool.
C27_InUseWithinPool ==
    in_use \subseteq Range(pool)

\* C24: under every interleaving of concurrent acquires, an acquire that
\* fails fails with pool exhaustion or with a session-creation failure,
\* never with an error of probing or dropping a dead session.
C24_ProbeFailureSilent ==
    \A t \in Threads :
        (pc[t] = "return" /\ clientOf[t] = None) =>
            result[t].error \in {"PoolFull", "ConnectFailed"}

\* C26: whenever no request is in flight, no session of the pool of
\* ssh_executor is marked in-use: what a request acquired, the /health
\* request included, it has released by the time it completes.
C26_NothingHeldBetweenRequests ==
    Served => in_use = {}

\* Vocabulary of C30: the endpoints the claim calls destructive.
Destructive ==
    {"stop_service", "update_code", "clean_logs", "rebuild_images",
     "clean_docker_cache", "clean_docker_images", "clean_old_logs",
     "update_config"}

\* C30: a request to a destructive endpoint that does not carry confirm =
\* true issues no remote command: it has failed before the executor is
\* called, with 400 once its token was accepted (with 401 or 403 of the
\* dependency when it was not).
C30_NoCommandWithoutConfirm ==
    (request.handler \in Destructive /\ ~request.confirm) =>
        /\ ~request.reached
        /\ request.stage = "done"
        /\ request.status \in {400, 401, 403}
        /\ request.validated => request.status = 400

\* update_config was asked for with a valid token and without confirm and
\* answered 400, after a request that did issue commands.
C30_Witness ==
    /\ request.handler = "update_config"
    /\ ~request.confirm
    /\ request.validated
    /\ request.status = 400
    /\ ~request.reached
    /\ pool # <<>>
====
